---- MODULE Spec2Model ----
(***************************************************************************)
(* Model of cost-report.py: one sequential run of main().                  *)
(*                                                                         *)
(*   get_last_three_full_months  (the period calculator)                   *)
(*   get_subscription_costs      (one cost query)                          *)
(*   generate_cost_report        (configuration, authentication, the       *)
(*                                aggregation loop, the CSV write)         *)
(*   send_email_with_attachment  (delivery configuration, file read,       *)
(*                                the SendGrid call)                       *)
(*   main                        (generate, then send when both results    *)
(*                                are truthy)                              *)
(*                                                                         *)
(* Strings that the code splits and strips are sequences of one-character  *)
(* strings.  An environment variable is a record [set, val]: os.getenv     *)
(* returns None when the variable is not set.  Costs are integers (the     *)
(* code adds them in row order, and so do the sums below).  print() is     *)
(* taken not to raise.                                                     *)
(***************************************************************************)
EXTENDS Integers, Sequences, FiniteSets, TLC

VARIABLES
    clock,                   \* what datetime.now() returns during the run
    pc,                      \* position of the run in main()
    target_subscription_ids, \* line 94
    months,                  \* line 115
    sub_idx,                 \* position of the for loop of line 124
    month_idx,               \* position of the for loop of line 137
    report_row,              \* line 125, the row being filled
    report_data,             \* line 120
    summary_data,            \* line 121
    disk,                    \* the report file on local storage
    csv_file,                \* line 353, first result of generate_cost_report
    ret_summary,             \* line 353, second result (<<>> is None)
    mail_env,                \* lines 187-189, the values os.getenv returned
    calls,                   \* history: every external call and the file
                             \* write, in order, with what came back
    status                   \* how the run ended

vars == <<clock, pc, target_subscription_ids, months, sub_idx, month_idx,
          report_row, report_data, summary_data, disk, csv_file,
          ret_summary, mail_env, calls, status>>

-----------------------------------------------------------------------------
(* Bounds and input sets *)

MaxCost == 2

CostValues == 1..MaxCost

(* The years the period calculator is run in: leap and common years, and
   both century cases. *)
Years == {2000, 2024, 2025, 2100}

Unset == [set |-> FALSE, val |-> <<>>]

Str(s) == [set |-> TRUE, val |-> s]

(* Values of SUBSCRIPTION_IDS *)
SubscriptionIdsValues ==
    { Unset, Str(<<>>), Str(<<" ", ",", " ">>),
      Str(<<"a">>), Str(<<" ", "b", " ", ",">>),
      Str(<<"a", ",", " ", "b">>), Str(<<"a", ",", "a">>) }

(* Values of SENDGRID_API_KEY, SENDER_EMAIL, RECEIVER_EMAILS *)
MailEnvValues ==
    { [key |-> Str(<<"k">>), sender |-> Str(<<"s">>), receivers |-> Str(<<"x">>)],
      [key |-> Str(<<"k">>), sender |-> Str(<<"s">>), receivers |-> Str(<<" ", "x", ",", "y">>)],
      [key |-> Unset,        sender |-> Str(<<"s">>), receivers |-> Str(<<"x">>)],
      [key |-> Str(<<>>),    sender |-> Str(<<"s">>), receivers |-> Str(<<"x">>)],
      [key |-> Str(<<"k">>), sender |-> Unset,        receivers |-> Str(<<"x">>)],
      [key |-> Str(<<"k">>), sender |-> Str(<<"s">>), receivers |-> Unset],
      [key |-> Str(<<"k">>), sender |-> Str(<<"s">>), receivers |-> Str(<<>>)],
      [key |-> Str(<<"k">>), sender |-> Str(<<"s">>), receivers |-> Str(<<" ", ",", " ">>)] }

-----------------------------------------------------------------------------
(* str.split(',') and str.strip() *)

Whitespace == {" "}

RECURSIVE lstrip(_)
lstrip(s) ==
    IF s # <<>> /\ Head(s) \in Whitespace THEN lstrip(Tail(s)) ELSE s

RECURSIVE rstrip(_)
rstrip(s) ==
    IF s # <<>> /\ s[Len(s)] \in Whitespace
    THEN rstrip(SubSeq(s, 1, Len(s) - 1))
    ELSE s

strip(s) == lstrip(rstrip(s))

(* split always returns at least one piece; "" splits into [""] *)
RECURSIVE split(_, _)
split(s, piece) ==
    IF s = <<>> THEN <<piece>>
    ELSE IF Head(s) = "," THEN <<piece>> \o split(Tail(s), <<>>)
    ELSE split(Tail(s), Append(piece, Head(s)))

(* [x.strip() for x in s.split(',') if x.strip()] *)
RECURSIVE StripNonEmpty(_)
StripNonEmpty(pieces) ==
    IF pieces = <<>> THEN <<>>
    ELSE IF strip(Head(pieces)) # <<>>
         THEN <<strip(Head(pieces))>> \o StripNonEmpty(Tail(pieces))
         ELSE StripNonEmpty(Tail(pieces))

(* Python truth value of an os.getenv result: None and "" are false *)
Truthy(v) == v.set /\ v.val # <<>>

-----------------------------------------------------------------------------
(* datetime arithmetic *)

MonthNames ==
    <<"January", "February", "March", "April", "May", "June", "July",
      "August", "September", "October", "November", "December">>

IsLeap(y) == (y % 4 = 0 /\ y % 100 # 0) \/ y % 400 = 0

DaysInMonth(y, m) ==
    IF m = 2 THEN (IF IsLeap(y) THEN 29 ELSE 28)
    ELSE IF m \in {4, 6, 9, 11} THEN 30 ELSE 31

Min(a, b) == IF a < b THEN a ELSE b

(* AddMonths with the year left alone when the month wraps *)
AddMonths_no_year_carry(dt, n) ==
    LET total == (dt.year * 12 + (dt.month - 1)) + n
        m == (total % 12) + 1
    IN  [dt EXCEPT !.month = m,
                   !.day = Min(dt.day, DaysInMonth(dt.year, m))]

(* dt + relativedelta(months=n), n of either sign: the month moves, the
   year carries, the day is clipped to the length of the new month *)
AddMonths(dt, n) ==
    LET total == (dt.year * 12 + (dt.month - 1)) + n
        y == total \div 12
        m == (total % 12) + 1
    IN  [dt EXCEPT !.year = y, !.month = m,
                   !.day = Min(dt.day, DaysInMonth(y, m))]

(* dt - timedelta(seconds=1) *)
SubOneSecond(dt) ==
    IF dt.second > 0 THEN [dt EXCEPT !.second = dt.second - 1]
    ELSE IF dt.minute > 0
         THEN [dt EXCEPT !.minute = dt.minute - 1, !.second = 59]
    ELSE IF dt.hour > 0
         THEN [dt EXCEPT !.hour = dt.hour - 1, !.minute = 59, !.second = 59]
    ELSE IF dt.day > 1
         THEN [dt EXCEPT !.day = dt.day - 1,
                         !.hour = 23, !.minute = 59, !.second = 59]
    ELSE LET y == IF dt.month = 1 THEN dt.year - 1 ELSE dt.year
             m == IF dt.month = 1 THEN 12 ELSE dt.month - 1
         IN  [year |-> y, month |-> m, day |-> DaysInMonth(y, m),
              hour |-> 23, minute |-> 59, second |-> 59]

(* strftime('%B %Y') *)
MonthLabel(dt) == <<MonthNames[dt.month], dt.year>>

(* strftime('%Y-%m-%dT%H:%M:%SZ'): the six fields, most significant first *)
Stamp(dt) == <<dt.year, dt.month, dt.day, dt.hour, dt.minute, dt.second>>

start_of_month(today, i) ==
    [AddMonths(today, 0 - i) EXCEPT !.day = 1, !.hour = 0,
                                    !.minute = 0, !.second = 0]

end_of_month(today, i) == SubOneSecond(AddMonths(start_of_month(today, i), 1))

month_entry(today, i) ==
    [name  |-> MonthLabel(start_of_month(today, i)),
     start |-> Stamp(start_of_month(today, i)),
     end   |-> Stamp(end_of_month(today, i))]

(* for i in range(3, 0, -1): month_data.append(...) *)
get_last_three_full_months(today) ==
    <<month_entry(today, 3), month_entry(today, 2), month_entry(today, 1)>>

(* The instants the period calculator is checked on *)
Instants ==
    { [year |-> y, month |-> m, day |-> d,
       hour |-> t[1], minute |-> t[2], second |-> t[3]] :
        y \in Years, m \in 1..12, d \in {1, 15, 28, 29, 30, 31},
        t \in {<<0, 0, 0>>, <<10, 30, 7>>, <<23, 59, 59>>} }

ValidInstants == { dt \in Instants : dt.day <= DaysInMonth(dt.year, dt.month) }

(* The instants a whole run is checked on *)
RunInstants ==
    { [year |-> 2025, month |-> 1, day |-> 31,
       hour |-> 10, minute |-> 30, second |-> 7] }

-----------------------------------------------------------------------------
(* Values of the run *)

EmptyDict == <<>>

(* A cell of a report row: a number, or the text 'N/A' *)
Num(n) == [na |-> FALSE, v |-> n]

NA == [na |-> TRUE, v |-> 0]

NoRow == [id |-> <<>>, name |-> "", cells |-> EmptyDict]

(* What cost_client.query.usage can do: raise, return no rows, return a
   first row float() cannot read, or return a first row holding a cost *)
QueryResults ==
    { [kind |-> "raise", v |-> 0], [kind |-> "empty", v |-> 0],
      [kind |-> "malformed", v |-> 0] }
    \cup { [kind |-> "rows", v |-> c] : c \in CostValues }

Call(op, sub, month, outcome, v) ==
    [op |-> op, sub |-> sub, month |-> month, outcome |-> outcome, v |-> v]

(* d[k] = x *)
SetItem(d, k, x) == [n \in (DOMAIN d) \cup {k} |-> IF n = k THEN x ELSE d[n]]

-----------------------------------------------------------------------------
(* get_subscription_costs, lines 42-81: every exception of the query and of
   the float() conversion is caught inside and turned into 0.0 *)
get_subscription_costs(r) ==
    IF r.kind = "raise" THEN 0          \* line 81
    ELSE IF r.kind = "rows" THEN r.v    \* lines 73-74
    ELSE IF r.kind = "empty" THEN 0     \* line 77
    ELSE 0                              \* float() raised: line 81

(* add_to_summary with "=" in place of "+=" *)
add_to_summary_overwrite(summary, name, cost) ==
    SetItem(summary, name, cost)

(* add_to_summary guarded by "if cost:" *)
add_to_summary_skip_zero(summary, name, cost) ==
    IF cost = 0 THEN summary
    ELSE LET s0 == IF name \notin DOMAIN summary
                   THEN SetItem(summary, name, 0) ELSE summary
         IN  SetItem(s0, name, s0[name] + cost)

(* lines 147-149 *)
add_to_summary(summary, name, cost) ==
    LET s0 == IF name \notin DOMAIN summary THEN SetItem(summary, name, 0)
              ELSE summary
    IN  SetItem(s0, name, s0[name] + cost)

(* line 143 *)
set_cell(row, name, cost) ==
    [row EXCEPT !.cells = SetItem(row.cells, name, Num(cost))]

(* line 94 *)
parse_subscription_ids(subscription_ids_str) ==
    StripNonEmpty(split(subscription_ids_str, <<>>))

(* parse_to_emails without the "if email.strip()" filter *)
parse_to_emails_without_filter(receiver_emails_str) ==
    split(receiver_emails_str, <<>>)

(* line 195 *)
parse_to_emails(receiver_emails_str) ==
    StripNonEmpty(split(receiver_emails_str, <<>>))

(* line 191 *)
mail_config_missing(e) ==
    ~Truthy(e.key) \/ ~Truthy(e.sender) \/ ~Truthy(e.receivers)

(* line 355: "if csv_file and summary_data"; None, "" and {} are false *)
report_ready(file, summary) ==
    /\ file # "None"
    /\ summary # <<>>
    /\ DOMAIN summary[1] # {}

-----------------------------------------------------------------------------
Init ==
    /\ clock \in RunInstants
    /\ pc = "config"
    /\ target_subscription_ids = <<>>
    /\ months = <<>>
    /\ sub_idx = 0
    /\ month_idx = 0
    /\ report_row = NoRow
    /\ report_data = <<>>
    /\ summary_data = EmptyDict
    /\ disk = [state |-> "absent", rows |-> <<>>]
    /\ csv_file = "None"
    /\ ret_summary = <<>>
    /\ mail_env = [key |-> Unset, sender |-> Unset, receivers |-> Unset]
    /\ calls = <<>>
    /\ status = "running"

(* "return None, None" from generate_cost_report *)
ReturnNone ==
    /\ csv_file' = "None"
    /\ ret_summary' = <<>>
    /\ pc' = "main"

(* lines 89-98 *)
ReadConfig ==
    /\ pc = "config"
    /\ \E subscription_ids_str \in SubscriptionIdsValues :
         IF ~Truthy(subscription_ids_str)
         THEN ReturnNone /\ UNCHANGED target_subscription_ids
         ELSE IF parse_subscription_ids(subscription_ids_str.val) = <<>>
         THEN ReturnNone /\ UNCHANGED target_subscription_ids
         ELSE /\ target_subscription_ids' =
                     parse_subscription_ids(subscription_ids_str.val)
              /\ pc' = "auth"
              /\ UNCHANGED <<csv_file, ret_summary>>
    /\ UNCHANGED <<clock, months, sub_idx, month_idx, report_row, report_data,
                   summary_data, disk, mail_env, calls, status>>

(* Authenticate with the "return None, None" of line 110 missing *)
Authenticate_ignoring_failure ==
    /\ pc = "auth"
    /\ \E outcome \in {"ok", "raise"} :
         /\ calls' = Append(calls, Call("auth", 0, 0, outcome, 0))
         /\ months' = get_last_three_full_months(clock)
         /\ sub_idx' = 1
         /\ pc' = "lookup"
         /\ UNCHANGED <<csv_file, ret_summary>>
    /\ UNCHANGED <<clock, target_subscription_ids, month_idx, report_row,
                   report_data, summary_data, disk, mail_env, status>>

(* lines 100-121 *)
Authenticate ==
    /\ pc = "auth"
    /\ \E outcome \in {"ok", "raise"} :
         /\ calls' = Append(calls, Call("auth", 0, 0, outcome, 0))
         /\ IF outcome = "ok"
            THEN /\ months' = get_last_three_full_months(clock)
                 /\ sub_idx' = 1
                 /\ pc' = "lookup"
                 /\ UNCHANGED <<csv_file, ret_summary>>
            ELSE /\ ReturnNone
                 /\ UNCHANGED <<months, sub_idx>>
    /\ UNCHANGED <<clock, target_subscription_ids, month_idx, report_row,
                   report_data, summary_data, disk, mail_env, status>>

(* the for loop of line 124 moves to the next identifier, or ends *)
NextSubscription ==
    /\ sub_idx' = sub_idx + 1
    /\ pc' = IF sub_idx + 1 > Len(target_subscription_ids)
             THEN "write" ELSE "lookup"

(* Lookup with the "continue" of line 134 missing *)
Lookup_without_continue ==
    /\ pc = "lookup"
    /\ \E outcome \in {"ok", "raise"} :
         /\ calls' = Append(calls, Call("lookup", sub_idx, 0, outcome, 0))
         /\ report_row' = [id |-> target_subscription_ids[sub_idx],
                           name |-> IF outcome = "ok" THEN "Prod" ELSE "N/A",
                           cells |-> EmptyDict]
         /\ month_idx' = 1
         /\ pc' = "months"
         /\ UNCHANGED sub_idx
    /\ UNCHANGED <<clock, target_subscription_ids, months, report_data,
                   summary_data, disk, csv_file, ret_summary, mail_env,
                   status>>

(* lines 125-134 *)
Lookup ==
    /\ pc = "lookup"
    /\ \E outcome \in {"ok", "raise"} :
         /\ calls' = Append(calls, Call("lookup", sub_idx, 0, outcome, 0))
         /\ IF outcome = "ok"
            THEN /\ report_row' = [id |-> target_subscription_ids[sub_idx],
                                   name |-> "Prod", cells |-> EmptyDict]
                 /\ month_idx' = 1
                 /\ pc' = "months"
                 /\ UNCHANGED sub_idx
            ELSE /\ report_row' = [id |-> target_subscription_ids[sub_idx],
                                   name |-> "N/A", cells |-> EmptyDict]
                 /\ NextSubscription
                 /\ UNCHANGED month_idx
    /\ UNCHANGED <<clock, target_subscription_ids, months, report_data,
                   summary_data, disk, csv_file, ret_summary, mail_env,
                   status>>

(* lines 137-155: one pass of the loop over months, and line 155 after the
   last one.  get_subscription_costs returns for every result of the query,
   so the body of the try of line 138 runs to its end. *)
QueryPeriod ==
    /\ pc = "months"
    /\ \E r \in QueryResults :
         LET month == months[month_idx]
             cost == get_subscription_costs(r)
             row == set_cell(report_row, month.name, cost)
         IN  /\ calls' = Append(calls, Call("query", sub_idx, month_idx, r.kind, r.v))
             /\ report_row' = row
             /\ summary_data' = add_to_summary(summary_data, month.name, cost)
             /\ IF month_idx = Len(months)
                THEN /\ report_data' = Append(report_data, row)
                     /\ NextSubscription
                     /\ UNCHANGED month_idx
                ELSE /\ month_idx' = month_idx + 1
                     /\ UNCHANGED <<report_data, sub_idx, pc>>
    /\ UNCHANGED <<clock, target_subscription_ids, months, disk, csv_file,
                   ret_summary, mail_env, status>>

(* WriteFile with "return file_name, summary_data" after the handlers *)
WriteFile_returning_name_on_failure ==
    /\ pc = "write"
    /\ \E outcome \in {"ok", "PermissionError", "OSError"} :
         /\ calls' = Append(calls, Call("write", 0, 0, outcome, 0))
         /\ disk' = IF outcome = "ok"
                    THEN [state |-> "written", rows |-> report_data]
                    ELSE [state |-> IF outcome = "PermissionError"
                                    THEN "absent" ELSE "partial",
                          rows |-> <<>>]
         /\ csv_file' = "azure_cost_report.csv"
         /\ ret_summary' = <<summary_data>>
         /\ pc' = "main"
    /\ UNCHANGED <<clock, target_subscription_ids, months, sub_idx, month_idx,
                   report_row, report_data, summary_data, mail_env, status>>

(* lines 157-181 *)
WriteFile ==
    /\ pc = "write"
    /\ \E outcome \in {"ok", "PermissionError", "OSError"} :
         /\ calls' = Append(calls, Call("write", 0, 0, outcome, 0))
         /\ IF outcome = "ok"
            THEN /\ disk' = [state |-> "written", rows |-> report_data]
                 /\ csv_file' = "azure_cost_report.csv"
                 /\ ret_summary' = <<summary_data>>
                 /\ pc' = "main"
            ELSE /\ disk' = [state |-> IF outcome = "PermissionError"
                                       THEN "absent" ELSE "partial",
                             rows |-> <<>>]
                 /\ ReturnNone
    /\ UNCHANGED <<clock, target_subscription_ids, months, sub_idx, month_idx,
                   report_row, report_data, summary_data, mail_env, status>>

(* lines 353-369 *)
Main ==
    /\ pc = "main"
    /\ IF report_ready(csv_file, ret_summary)
       THEN /\ pc' = "send_config"
            /\ UNCHANGED status
       ELSE /\ pc' = "done"
            /\ status' = "generate_failed"
    /\ UNCHANGED <<clock, target_subscription_ids, months, sub_idx, month_idx,
                   report_row, report_data, summary_data, disk, csv_file,
                   ret_summary, mail_env, calls>>

(* "return False" from send_email_with_attachment, and lines 366-367 *)
SendFailed ==
    /\ pc' = "done"
    /\ status' = "send_failed"

(* lines 187-198 *)
SendConfig ==
    /\ pc = "send_config"
    /\ \E e \in MailEnvValues :
         /\ mail_env' = e
         /\ IF mail_config_missing(e) THEN SendFailed
            ELSE IF parse_to_emails(e.receivers.val) = <<>> THEN SendFailed
            ELSE pc' = "send_read" /\ UNCHANGED status
    /\ UNCHANGED <<clock, target_subscription_ids, months, sub_idx, month_idx,
                   report_row, report_data, summary_data, disk, csv_file,
                   ret_summary, calls>>

(* lines 200-206 *)
ReadFile ==
    /\ pc = "send_read"
    /\ \E outcome \in {"ok", "raise"} :
         IF outcome = "ok" THEN pc' = "send_deliver" /\ UNCHANGED status
         ELSE SendFailed
    /\ UNCHANGED <<clock, target_subscription_ids, months, sub_idx, month_idx,
                   report_row, report_data, summary_data, disk, csv_file,
                   ret_summary, mail_env, calls>>

(* Deliver that calls sg.send again after an error *)
Deliver_with_retry ==
    /\ pc = "send_deliver"
    /\ \E outcome \in {"ok", "raise"} :
         /\ calls' = Append(calls, Call("send", 0, 0, outcome, 0))
         /\ IF outcome = "ok"
            THEN pc' = "done" /\ status' = "sent"
            ELSE UNCHANGED <<pc, status>>
    /\ UNCHANGED <<clock, target_subscription_ids, months, sub_idx, month_idx,
                   report_row, report_data, summary_data, disk, csv_file,
                   ret_summary, mail_env>>

(* lines 314-343, and lines 362-367 of main *)
Deliver ==
    /\ pc = "send_deliver"
    /\ \E outcome \in {"ok", "raise"} :
         /\ calls' = Append(calls, Call("send", 0, 0, outcome, 0))
         /\ IF outcome = "ok"
            THEN pc' = "done" /\ status' = "sent"
            ELSE SendFailed
    /\ UNCHANGED <<clock, target_subscription_ids, months, sub_idx, month_idx,
                   report_row, report_data, summary_data, disk, csv_file,
                   ret_summary, mail_env>>

Next ==
    \/ ReadConfig
    \/ Authenticate
    \/ Lookup
    \/ QueryPeriod
    \/ WriteFile
    \/ Main
    \/ SendConfig
    \/ ReadFile
    \/ Deliver

Spec == Init /\ [][Next]_vars

-----------------------------------------------------------------------------
(* The period calculator alone, on every instant of ValidInstants *)

InitPeriods ==
    /\ clock \in ValidInstants
    /\ pc = "periods"
    /\ target_subscription_ids = <<>>
    /\ months = <<>>
    /\ sub_idx = 0
    /\ month_idx = 0
    /\ report_row = NoRow
    /\ report_data = <<>>
    /\ summary_data = EmptyDict
    /\ disk = [state |-> "absent", rows |-> <<>>]
    /\ csv_file = "None"
    /\ ret_summary = <<>>
    /\ mail_env = [key |-> Unset, sender |-> Unset, receivers |-> Unset]
    /\ calls = <<>>
    /\ status = "running"

(* line 115 *)
CalcPeriods ==
    /\ pc = "periods"
    /\ months' = get_last_three_full_months(clock)
    /\ pc' = "periods_done"
    /\ UNCHANGED <<clock, target_subscription_ids, sub_idx, month_idx,
                   report_row, report_data, summary_data, disk, csv_file,
                   ret_summary, mail_env, calls, status>>

NextPeriods == CalcPeriods

SpecPeriods == InitPeriods /\ [][NextPeriods]_vars

-----------------------------------------------------------------------------
(* Reading the history *)

CallsOf(op) == { i \in DOMAIN calls : calls[i].op = op }

QueriesOf(sub, month) ==
    { i \in CallsOf("query") : calls[i].sub = sub /\ calls[i].month = month }

QueriesOfMonth(month) == { i \in CallsOf("query") : calls[i].month = month }

LookupsOf(sub) == { i \in CallsOf("lookup") : calls[i].sub = sub }

Resolved(sub) == \E i \in LookupsOf(sub) : calls[i].outcome = "ok"

(* the positions of the identifier list whose row is complete, in order *)
RECURSIVE ResolvedUpTo(_)
ResolvedUpTo(n) ==
    IF n = 0 THEN <<>>
    ELSE IF Resolved(n) THEN Append(ResolvedUpTo(n - 1), n)
    ELSE ResolvedUpTo(n - 1)

Completed ==
    IF sub_idx = 0 THEN <<>>
    ELSE ResolvedUpTo(Min(sub_idx - 1, Len(target_subscription_ids)))

(* the cell the query of call i filled, once the code has stored it *)
HasCell(i) ==
    \/ \E k \in DOMAIN Completed : Completed[k] = calls[i].sub
    \/ pc = "months" /\ calls[i].sub = sub_idx

CellOf(i) ==
    LET name == months[calls[i].month].name
    IN  IF pc = "months" /\ calls[i].sub = sub_idx
        THEN report_row.cells[name]
        ELSE LET k == CHOOSE k \in DOMAIN Completed :
                          Completed[k] = calls[i].sub
             IN  report_data[k].cells[name]

(* the sum, in row order, of the numeric cells of one period *)
RECURSIVE RowSum(_, _)
RowSum(rows, name) ==
    IF rows = <<>> THEN 0
    ELSE LET last == rows[Len(rows)]
             rest == RowSum(SubSeq(rows, 1, Len(rows) - 1), name)
         IN  IF name \in DOMAIN last.cells /\ ~last.cells[name].na
             THEN rest + last.cells[name].v
             ELSE rest

(* the sum of what the queries of one period returned, over the first n
   calls; a query that returned no cost counts for nothing *)
RECURSIVE ReturnedSum(_, _)
ReturnedSum(n, month) ==
    IF n = 0 THEN 0
    ELSE ReturnedSum(n - 1, month)
         + (IF calls[n].op = "query" /\ calls[n].month = month
               /\ calls[n].outcome = "rows"
            THEN calls[n].v ELSE 0)

Total(name) == IF name \in DOMAIN summary_data THEN summary_data[name] ELSE 0

SendStepEntered ==
    \/ pc \in {"send_config", "send_read", "send_deliver"}
    \/ status \in {"sent", "send_failed"}

-----------------------------------------------------------------------------
(* C1: for a resolved subscription, a cost query that raises (or whose
   result row cannot be read) leaves the text 'N/A' in the cell of that
   period, adds nothing to the total of the period, and the other periods
   and the later subscriptions are still queried. *)
C1_FailedQueryGivesSentinel ==
    /\ \A i \in CallsOf("query") :
         (calls[i].outcome \in {"raise", "malformed"} /\ HasCell(i))
            => CellOf(i) = NA
    /\ \A m \in DOMAIN months :
         Total(months[m].name) = ReturnedSum(Len(calls), m)
    /\ pc \in {"write", "main", "send_config", "send_read", "send_deliver", "done"}
         => \A p \in DOMAIN target_subscription_ids :
              Resolved(p) => \A m \in DOMAIN months : QueriesOf(p, m) # {}

-----------------------------------------------------------------------------
(* the sum of what the queries of one period returned to resolved
   subscriptions *)
RECURSIVE ResolvedReturnedSum(_, _)
ResolvedReturnedSum(n, month) ==
    IF n = 0 THEN 0
    ELSE ResolvedReturnedSum(n - 1, month)
         + (IF calls[n].op = "query" /\ calls[n].month = month
               /\ calls[n].outcome = "rows" /\ Resolved(calls[n].sub)
            THEN calls[n].v ELSE 0)

LookupFailed(p) == \E i \in LookupsOf(p) : calls[i].outcome = "raise"

(* C2: the report rows are the configured identifiers whose lookup
   succeeded, in input order; an identifier whose lookup failed has no row,
   no cost query, and no share in any total. *)
C2_RowsAreResolvedIdsInOrder ==
    /\ Len(report_data) = Len(Completed)
    /\ \A k \in DOMAIN Completed :
         /\ k \in DOMAIN report_data
         /\ report_data[k].id = target_subscription_ids[Completed[k]]
    /\ \A p \in DOMAIN target_subscription_ids :
         LookupFailed(p) => \A i \in CallsOf("query") : calls[i].sub # p
    /\ \A m \in DOMAIN months :
         Total(months[m].name) = ResolvedReturnedSum(Len(calls), m)

C2_Witness ==
    /\ pc = "done"
    /\ Len(target_subscription_ids) = 2
    /\ LookupFailed(1)
    /\ Resolved(2)
    /\ Len(report_data) = 1
    /\ report_data[1].id = target_subscription_ids[2]

(* C3: whenever no subscription is half processed, and at the end, the
   total of each period is the sum of the numeric cells of that period over
   the report rows; an 'N/A' cell counts for nothing. *)
C3_TotalsAreColumnSums ==
    pc # "months" =>
        \A m \in DOMAIN months :
            Total(months[m].name) = RowSum(report_data, months[m].name)

C3_Witness ==
    /\ pc = "lookup"
    /\ Len(report_data) = 1
    /\ Total(months[2].name) = 2
    /\ Total(months[3].name) = 0

(* C4: authentication is attempted at most once, it has been attempted and
   has succeeded before any lookup or cost query, a run with identifiers
   attempts it exactly once, and when it fails the run fails with no
   lookup, no cost query, no report file and no email. *)
C4_AuthenticateOnceAndFirst ==
    /\ Cardinality(CallsOf("auth")) <= 1
    /\ \A i \in CallsOf("lookup") \cup CallsOf("query") :
         \E j \in CallsOf("auth") : j < i /\ calls[j].outcome = "ok"
    /\ (target_subscription_ids # <<>> /\ pc \notin {"config", "auth"})
         => Cardinality(CallsOf("auth")) = 1
    /\ (\E j \in CallsOf("auth") : calls[j].outcome = "raise") =>
         /\ CallsOf("lookup") \cup CallsOf("query") = {}
         /\ CallsOf("write") \cup CallsOf("send") = {}
         /\ disk.state = "absent"
         /\ ~SendStepEntered
         /\ pc \in {"main", "done"}
         /\ pc = "done" => status = "generate_failed"

C4_Witness ==
    /\ pc = "done"
    /\ \E j \in CallsOf("auth") : calls[j].outcome = "raise"
    /\ status = "generate_failed"

(* C5: when the write of the report file fails, generate_cost_report
   returns (None, None) and the send step is not entered. *)
C5_WriteFailureStopsBeforeSend ==
    \A i \in CallsOf("write") :
        calls[i].outcome # "ok" =>
            /\ csv_file = "None"
            /\ ret_summary = <<>>
            /\ ~SendStepEntered
            /\ CallsOf("send") = {}
            /\ pc = "done" => status = "generate_failed"

C5_Witness ==
    /\ pc = "done"
    /\ \E i \in CallsOf("write") : calls[i].outcome = "PermissionError"
    /\ report_data # <<>>
    /\ DOMAIN summary_data # {}

KeyMissing == ~mail_env.key.set \/ Len(mail_env.key.val) = 0

SenderMissing == ~mail_env.sender.set \/ Len(mail_env.sender.val) = 0

RecipientsMissing == ~mail_env.receivers.set

(* nothing is left of the recipient list once the commas and the blanks
   are taken away *)
NoRecipient ==
    \A i \in DOMAIN mail_env.receivers.val :
        mail_env.receivers.val[i] \in {",", " "}

MailEnvRead ==
    \/ pc \in {"send_read", "send_deliver"}
    \/ status \in {"sent", "send_failed"}

(* C6: a send step that finds the delivery credential, the sender or the
   recipient list missing, or no recipient in the list, returns failure and
   the delivery API is not called. *)
C6_MissingMailConfigNeverSends ==
    (MailEnvRead /\ (KeyMissing \/ SenderMissing \/ RecipientsMissing
                        \/ NoRecipient))
        => /\ pc = "done"
           /\ status = "send_failed"
           /\ CallsOf("send") = {}

C6_Witness ==
    /\ pc = "done"
    /\ status = "send_failed"
    /\ ~KeyMissing /\ ~SenderMissing /\ ~RecipientsMissing
    /\ Len(mail_env.receivers.val) > 0
    /\ NoRecipient

PrevMonth(ym) == IF ym[2] = 1 THEN <<ym[1] - 1, 12>> ELSE <<ym[1], ym[2] - 1>>

LastDay(y, m) ==
    CASE m \in {1, 3, 5, 7, 8, 10, 12} -> 31
      [] m \in {4, 6, 9, 11} -> 30
      [] m = 2 /\ y % 4 = 0 /\ (y % 100 # 0 \/ y % 400 = 0) -> 29
      [] OTHER -> 28

(* a before b, for two stamps *)
RECURSIVE Before(_, _)
Before(a, b) ==
    /\ a # <<>>
    /\ \/ Head(a) < Head(b)
       \/ Head(a) = Head(b) /\ Before(Tail(a), Tail(b))

FullMonth(p, ym) ==
    /\ p.name = <<MonthNames[ym[2]], ym[1]>>
    /\ p.start = <<ym[1], ym[2], 1, 0, 0, 0>>
    /\ p.end = <<ym[1], ym[2], LastDay(ym[1], ym[2]), 23, 59, 59>>

(* C7: for every instant, the period calculator returns three periods,
   oldest first: the three calendar months before the current month, the
   year going back when they cross January; each runs from the first
   instant of its month to its last second, and the third ends before the
   current month starts. *)
C7_LastThreeFullMonths ==
    pc = "periods_done" =>
        LET cur == <<clock.year, clock.month>>
            p1 == PrevMonth(cur)
            p2 == PrevMonth(p1)
            p3 == PrevMonth(p2)
        IN  /\ Len(months) = 3
            /\ FullMonth(months[1], p3)
            /\ FullMonth(months[2], p2)
            /\ FullMonth(months[3], p1)
            /\ Before(months[1].end, months[2].start)
            /\ Before(months[2].end, months[3].start)
            /\ Before(months[3].end, <<clock.year, clock.month, 1, 0, 0, 0>>)
            /\ clock.month = 1 =>
                 /\ months[1].name = <<"October", clock.year - 1>>
                 /\ months[2].name = <<"November", clock.year - 1>>
                 /\ months[3].name = <<"December", clock.year - 1>>

C7_Witness ==
    /\ pc = "periods_done"
    /\ clock.month = 1
    /\ clock.day = 31
    /\ months[1].start = <<clock.year - 1, 10, 1, 0, 0, 0>>
    /\ months[3].end = <<clock.year - 1, 12, 31, 23, 59, 59>>

(* C8: a run that has written the report file enters the send step,
   whatever the aggregation produced, and so ends sent or failed in the
   send step. *)
C8_WrittenRunEntersSend ==
    /\ (disk.state = "written" /\ pc \notin {"write", "main"})
          => SendStepEntered
    /\ (disk.state = "written" /\ pc = "done")
          => status \in {"sent", "send_failed"}

(* C9: a cost query that returns no rows puts the number zero in the cell
   of that period and adds zero to its total, so the total of every period
   exists once a subscription has been processed. *)
C9_EmptyResultIsZero ==
    /\ \A i \in CallsOf("query") :
         (calls[i].outcome = "empty" /\ HasCell(i)) => CellOf(i) = Num(0)
    /\ \A m \in DOMAIN months :
         /\ QueriesOfMonth(m) # {} => months[m].name \in DOMAIN summary_data
         /\ (\A i \in QueriesOfMonth(m) : calls[i].outcome = "empty")
               => Total(months[m].name) = 0
    /\ report_data # <<>> =>
         \A m \in DOMAIN months : months[m].name \in DOMAIN summary_data

C9_Witness ==
    /\ status = "sent"
    /\ Len(report_data) = 1
    /\ \A i \in CallsOf("query") : calls[i].outcome = "empty"
    /\ \A m \in DOMAIN months :
         /\ report_data[1].cells[months[m].name] = Num(0)
         /\ months[m].name \in DOMAIN summary_data

(* C10: when the delivery call raises, the send step fails, the run ends
   failed and the report file stays written with the rows it had; the
   delivery API is called at most once, and each lookup and each cost query
   of a configured identifier and period is issued at most once. *)
C10_NoRetry ==
    /\ Cardinality(CallsOf("send")) <= 1
    /\ \A p \in DOMAIN target_subscription_ids :
         /\ Cardinality(LookupsOf(p)) <= 1
         /\ \A m \in 1..3 : Cardinality(QueriesOf(p, m)) <= 1
    /\ \A i \in CallsOf("send") :
         calls[i].outcome = "raise" =>
            /\ pc = "done"
            /\ status = "send_failed"
            /\ disk = [state |-> "written", rows |-> report_data]

C10_Witness ==
    /\ pc = "done"
    /\ \E i \in CallsOf("send") : calls[i].outcome = "raise"
    /\ Len(report_data) = 2
    /\ disk.state = "written"

====
